---- MODULE Spec2Model ----
(***************************************************************************)
(* wf-market-checker: the OrderChecker of src/src/__main__.py.             *)
(*                                                                         *)
(* One asyncio event loop runs the scheduler coroutine (run /              *)
(* schedule_tasks, the "main" task), one check_orders task per watched     *)
(* item, one request_item_from_order task per accepted order and the       *)
(* detached notify_webhook tasks.  A step of the model is one callback of  *)
(* the event loop: the code a task executes between two suspension points  *)
(* runs atomically, exactly as asyncio runs it.                            *)
(*                                                                         *)
(* The event loop is modelled as asyncio implements it: `ready` is the     *)
(* FIFO queue of scheduled callbacks, `ntodo` the number of callbacks the  *)
(* current iteration of the loop still has to run; callbacks scheduled     *)
(* during an iteration (call_soon) go to the tail of the queue and run in  *)
(* the next iteration; external events (I/O completion, timers) are        *)
(* appended between two iterations.                                        *)
(***************************************************************************)
EXTENDS Integers, Sequences, FiniteSets, TLC

VARIABLES
    tasks,             \* every check_orders task ever created, by creation index
    order_tasks,       \* self.order_tasks: indices of the tasks in the set
    found_orders_ids,  \* self.found_orders_ids
    total,             \* self.total
    ready,             \* event loop: FIFO queue of scheduled callbacks
    ntodo,             \* event loop: callbacks left in the current iteration
    main,              \* the scheduler coroutine (run + schedule_tasks)
    wh_tasks,          \* order ids with a detached notify_webhook task in flight
    accept_calls,      \* history: number of accept_order invocations per order id
    seen_again,        \* history: predicate_order was called with an id accepted before
    checked,           \* the last stand-alone evaluation of predicate_order
    last               \* history: what the step that led to this state did

vars == <<tasks, order_tasks, found_orders_ids, total, ready, ntodo, main,
          wh_tasks, accept_calls, seen_again, checked, last>>

(***************************************************************************)
(* Bounds                                                                  *)
(***************************************************************************)
MaxTasks == 5      \* check_orders tasks created in one behaviour
MaxSell == 2       \* sell orders in one listings response
MaxTotal == 1      \* self.total is tracked up to this value
MaxPlatinum == 4   \* platinum of an order handed to predicate_order
MaxQuantity == 2   \* quantity of an order handed to predicate_order

(***************************************************************************)
(* Data                                                                    *)
(***************************************************************************)
DefaultQuantityMin == -1
DefaultRank == 5

\* Item(name, price_threshold, quantity_min, rank): the configured watched items
ItemA == [name |-> "a", price_threshold |-> 2,
          quantity_min |-> DefaultQuantityMin, rank |-> DefaultRank]
ItemB == [name |-> "b", price_threshold |-> 3, quantity_min |-> 1, rank |-> 0]
ITEMS == {ItemA, ItemB}
NoItem == [name |-> "", price_threshold |-> 0, quantity_min |-> 0, rank |-> 0]

OrderIds == {"A", "B"}
NoOrder == ""
Statuses == {"ingame", "online", "offline"}

\* OrderWithUser, reduced to the fields check_orders reads
AllOrders == [id : OrderIds, platinum : 1..MaxPlatinum,
              quantity : 0..MaxQuantity, status : Statuses]

\* the orders the listings endpoint returns in the scheduler specification:
\* one per id, suitable for both items as long as its id is not accepted (what
\* predicate_order makes of every other order is SpecPredicate's subject)
FetchedOrders == {o \in AllOrders :
                    o.status = "ingame" /\ o.quantity = 1 /\ o.platinum = 2}

\* the orders of a response in the specification of one run's cycles: at a
\* price that suits both items or only the second
ListedOrders == {o \in AllOrders :
                   o.status = "ingame" /\ o.quantity = 1 /\ o.platinum \in 2..3}

SeqsUpTo(S, n) == UNION {[1..k -> S] : k \in 0..n}

\* the elements of a set of task indices in creation order
InOrder(S) ==
    CHOOSE s \in [1..Cardinality(S) -> S] :
        \A i, j \in 1..Cardinality(S) : i < j => s[i] < s[j]

\* every order in which a set can be iterated
Orders(S) == {s \in [1..Cardinality(S) -> S] :
                \A i, j \in 1..Cardinality(S) : i # j => s[i] # s[j]}

(***************************************************************************)
(* OrderChecker.predicate_order                                            *)
(***************************************************************************)
predicate_order_nodedup(order, item, found) ==
    /\ order.platinum <= item.price_threshold
    /\ order.quantity >= item.quantity_min
    /\ order.status = "ingame"

predicate_order_lt(order, item, found) ==
    /\ order.id \notin found
    /\ order.platinum < item.price_threshold
    /\ order.quantity >= item.quantity_min
    /\ order.status = "ingame"

predicate_order(order, item, found) ==
    /\ order.id \notin found
    /\ order.platinum <= item.price_threshold
    /\ order.quantity >= item.quantity_min
    /\ order.status = "ingame"

\* check_orders, "Check orders": index of the first suitable order, 0 if none
FirstMatchLast(sell, item, found) ==
    LET hits == {i \in 1..Len(sell) : predicate_order(sell[i], item, found)}
    IN  IF hits = {} THEN 0 ELSE CHOOSE i \in hits : \A j \in hits : i >= j

FirstMatch(sell, item, found) ==
    LET hits == {i \in 1..Len(sell) : predicate_order(sell[i], item, found)}
    IN  IF hits = {} THEN 0 ELSE CHOOSE i \in hits : \A j \in hits : i <= j

\* check_orders, "Completion logic": self.found_orders_ids.add(found_order.id)
AddFoundSkip(found, id) == found

AddFoundReplace(found, id) == {id}

AddFoundEvery(found, id) == found \cup OrderIds

AddFound(found, id) == found \cup {id}

\* check_orders: the value a finished run returns
ReturnValueDefaults(item) ==
    [item EXCEPT !.quantity_min = DefaultQuantityMin, !.rank = DefaultRank]

ReturnValue(item) == item

(***************************************************************************)
(* Event loop helpers                                                      *)
(***************************************************************************)
Handle(k, t, w) == [k |-> k, t |-> t, w |-> w]

HasHandle(q, k, t) == \E i \in 1..Len(q) : q[i].k = k /\ q[i].t = t

TaskIds == 1..Len(tasks)

IsDone(ts, t) == ts[t].pc = "done"

Live(t) == tasks[t].pc # "done"

\* suspension points of check_orders and of request_item_from_order
RunWaits == {"acquire", "fetch", "sleep"}
ImtWaits == {"imt_acquire", "imt_fetch"}

NewTask(item, origin) ==
    [item |-> item, pc |-> "new", cancel |-> FALSE, result |-> "pending",
     was_cancelled |-> FALSE, value |-> NoItem, found |-> NoOrder, sub |-> "none",
     origin |-> origin, reported |-> 0, acquired |-> FALSE]

\* asyncio: callbacks scheduled when future t of the current wait completes
DoneCallbacks(t) ==
    <<Handle("discard", t, 0)>> \o
    (IF main.pc = "waiting" /\ t \in main.fs
     THEN <<Handle("on_completion", t, main.wait_id)>> ELSE <<>>)

\* the head of the queue is callback k of task t, and the loop runs it
Runs(k, t) ==
    /\ ntodo > 0
    /\ ready # <<>>
    /\ Head(ready).k = k
    /\ Head(ready).t = t

Pop(new) ==
    /\ ready' = Tail(ready) \o new
    /\ ntodo' = ntodo - 1

Count(n) == IF n < MaxTotal THEN n + 1 ELSE MaxTotal

(***************************************************************************)
(* Initial state: OrderChecker.__init__, asyncio.run(main()) scheduled     *)
(***************************************************************************)
\* the event of a step: the run t that took it and what its cycle came to
Event(t, ev) == [t |-> t, ev |-> ev]

NoEvent == Event(0, "none")

NoCheck == [order |-> NoOrder, item |-> NoItem, found |-> {}, verdict |-> FALSE,
            evaluated |-> FALSE, sell |-> <<>>, buy |-> <<>>, index |-> 0,
            cycles |-> 0, accepted |-> 0, looping |-> TRUE]

Init ==
    /\ tasks = <<>>
    /\ order_tasks = {}
    /\ found_orders_ids = {}
    /\ total = 0
    /\ ready = <<Handle("main", 0, 0)>>
    /\ ntodo = 0
    /\ main = [pc |-> "init", exit |-> "none", cancel |-> FALSE,
               fs |-> {}, wait_id |-> 0, waiter |-> "pending"]
    /\ wh_tasks = {}
    /\ accept_calls = [id \in OrderIds |-> 0]
    /\ seen_again = FALSE
    /\ checked = NoCheck
    /\ last = NoEvent

(***************************************************************************)
(* Event loop: external events and iterations                              *)
(***************************************************************************)
\* a timer of the loop fires: the limiter's retry timeout or asyncio.sleep
TimerFires(t) ==
    /\ ntodo = 0
    /\ t \in TaskIds
    /\ tasks[t].pc \in {"acquire", "sleep", "imt_acquire"}
    /\ LET k == IF tasks[t].pc = "imt_acquire" THEN "imt" ELSE "step"
       IN  /\ ~HasHandle(ready, k, t)
           /\ ready' = Append(ready, Handle(k, t, 0))
    /\ UNCHANGED <<tasks, order_tasks, found_orders_ids, total, ntodo, main,
                   wh_tasks, accept_calls, seen_again, checked>>
    /\ last' = NoEvent

\* the I/O of a pending request completes (with a response or an error)
IoCompletes(t) ==
    /\ ntodo = 0
    /\ t \in TaskIds
    /\ tasks[t].pc \in {"fetch", "imt_fetch"}
    /\ LET k == IF tasks[t].pc = "imt_fetch" THEN "imt" ELSE "step"
       IN  /\ ~HasHandle(ready, k, t)
           /\ ready' = Append(ready, Handle(k, t, 0))
    /\ UNCHANGED <<tasks, order_tasks, found_orders_ids, total, ntodo, main,
                   wh_tasks, accept_calls, seen_again, checked>>
    /\ last' = NoEvent

\* BaseEventLoop._run_once: the callbacks ready now are this iteration's
BeginIteration ==
    /\ ntodo = 0
    /\ ready # <<>>
    /\ ntodo' = Len(ready)
    /\ UNCHANGED <<tasks, order_tasks, found_orders_ids, total, ready, main,
                   wh_tasks, accept_calls, seen_again, checked>>
    /\ last' = NoEvent

(***************************************************************************)
(* OrderChecker.run / OrderChecker.schedule_tasks                          *)
(***************************************************************************)
\* run, "Cancel all tasks": the tasks the finally clause cancels
CancelTargetsNone(ot) == {}

CancelTargets(ot) == ot

\* Task.cancel() on task t: the wake-up it schedules, if the task is suspended
\* on a future that is still pending
CancelWake(ts, q, t) ==
    IF ts[t].pc \in RunWaits /\ ~HasHandle(q, "step", t) THEN Handle("step", t, 0)
    ELSE IF ts[t].pc \in ImtWaits /\ ~HasHandle(q, "imt", t) THEN Handle("imt", t, 0)
    ELSE Handle("none", t, 0)

IsWake(h) == h.k # "none"

\* for task in self.order_tasks: task.cancel()   (cord: the iteration order)
CancelledTasks(ts, S) ==
    [t \in 1..Len(ts) |->
        IF t \in S /\ ts[t].pc # "done"
        THEN [ts[t] EXCEPT !.cancel = TRUE, !.was_cancelled = TRUE]
        ELSE ts[t]]

CancelWakes(ts, q, cord) ==
    [i \in 1..Len(cord) |-> CancelWake(ts, q, cord[i])]

\* the cancelled tasks that are woken, in every order the set can be iterated
WakeOrders(ts, q, S) ==
    Orders({t \in S : ts[t].pc # "done" /\ IsWake(CancelWake(ts, q, t))})

\* asyncio.wait(self.order_tasks, FIRST_COMPLETED) up to its suspension:
\* a future that is already done gets its _on_completion scheduled at once
WaitCallbacks(ts, fs, w) ==
    LET ord == InOrder({t \in fs : IsDone(ts, t)})
    IN  [i \in 1..Len(ord) |-> Handle("on_completion", ord[i], w)]

Waiting(fs, w) ==
    [pc |-> "waiting", exit |-> "none", cancel |-> FALSE,
     fs |-> fs, wait_id |-> w, waiter |-> "pending"]

Exited(how) ==
    [pc |-> "exited", exit |-> how, cancel |-> main.cancel,
     fs |-> {}, wait_id |-> main.wait_id, waiter |-> main.waiter]

\* add_task(item) for each configured item, then the first asyncio.wait.
\* The order in which ITEMS (a set) is iterated only names the tasks: their
\* first steps are adjacent in the queue and touch nothing shared, so one
\* order stands for all.
ItemOrder == CHOOSE ord \in Orders(ITEMS) : TRUE

ScheduleStart ==
    /\ Runs("main", 0)
    /\ main.pc = "init"
    /\ LET ord == ItemOrder
           n == Len(ord)
       IN  /\ tasks' = [i \in 1..n |-> NewTask(ord[i], 0)]
           /\ order_tasks' = 1..n
           /\ main' = Waiting(1..n, 1)
           /\ Pop([i \in 1..n |-> Handle("step", i, 0)])
    /\ UNCHANGED <<found_orders_ids, total, wh_tasks, accept_calls, seen_again,
                   checked>>
    /\ last' = NoEvent

\* the done set asyncio.wait returns when the scheduler resumes
DoneSet == {t \in main.fs : IsDone(tasks, t)}

\* for task in done: item = await task; add_task(item)
\* the number of tasks of ord replaced before `await task` raises
Replaced(ord) ==
    CHOOSE k \in 0..Len(ord) :
        /\ \A i \in 1..k : tasks[ord[i]].result = "returned"
        /\ k < Len(ord) => tasks[ord[k + 1]].result # "returned"

Reported(ts, d) ==
    [t \in 1..Len(ts) |->
        IF t \in d THEN [ts[t] EXCEPT !.reported = @ + 1] ELSE ts[t]]

\* the scheduler resumes from asyncio.wait, replaces every finished run and
\* waits again.  When no `await task` raises, the order in which `done` is
\* iterated only names the replacement tasks, so one order stands for all.
ScheduleWake ==
    /\ Runs("main", 0)
    /\ main.pc = "waiting"
    /\ ~main.cancel
    /\ LET ord == InOrder(DoneSet)
           k == Replaced(ord)
           n == Len(tasks)
           new == [i \in 1..k |-> NewTask(tasks[ord[i]].value, ord[i])]
           ts == Reported(tasks, DoneSet) \o new
           ot == order_tasks \cup (n + 1 .. n + k)
       IN  /\ k = Len(ord)
           /\ n + k <= MaxTasks
           /\ tasks' = ts
           /\ order_tasks' = ot
           /\ main' = Waiting(ot, main.wait_id + 1)
           /\ Pop([i \in 1..k |-> Handle("step", n + i, 0)]
                  \o WaitCallbacks(ts, ot, main.wait_id + 1))
    /\ UNCHANGED <<found_orders_ids, total, wh_tasks, accept_calls, seen_again,
                   checked>>
    /\ last' = NoEvent

\* `await task` re-raises the exception of a finished run: schedule_tasks and
\* run are left through the finally clause, which cancels every task
ScheduleRaise ==
    /\ Runs("main", 0)
    /\ main.pc = "waiting"
    /\ ~main.cancel
    /\ \E ord \in Orders(DoneSet) :
         LET k == Replaced(ord)
             n == Len(tasks)
             new == [i \in 1..k |-> NewTask(tasks[ord[i]].value, ord[i])]
             ts == Reported(tasks, DoneSet) \o new
             ot == order_tasks \cup (n + 1 .. n + k)
             q == Tail(ready) \o [i \in 1..k |-> Handle("step", n + i, 0)]
         IN  /\ k < Len(ord)
             /\ n + k <= MaxTasks
             /\ \E cord \in WakeOrders(ts, q, CancelTargets(ot)) :
                  /\ tasks' = CancelledTasks(ts, CancelTargets(ot))
                  /\ ready' = q \o CancelWakes(ts, q, cord)
             /\ ntodo' = ntodo - 1
             /\ order_tasks' = ot
             /\ main' = Exited("error")
    /\ UNCHANGED <<found_orders_ids, total, wh_tasks, accept_calls, seen_again,
                   checked>>
    /\ last' = NoEvent

\* the scheduler resumes with CancelledError thrown into asyncio.wait
ScheduleCancelled ==
    /\ Runs("main", 0)
    /\ main.pc = "waiting"
    /\ main.cancel
    /\ \E cord \in WakeOrders(tasks, Tail(ready), CancelTargets(order_tasks)) :
         /\ tasks' = CancelledTasks(tasks, CancelTargets(order_tasks))
         /\ Pop(CancelWakes(tasks, Tail(ready), cord))
    /\ main' = Exited("cancelled")
    /\ UNCHANGED <<order_tasks, found_orders_ids, total, wh_tasks, accept_calls,
                   seen_again, checked>>
    /\ last' = NoEvent

\* the interrupt signal: asyncio.run cancels the main task
Interrupt ==
    /\ main.pc = "waiting"
    /\ ~main.cancel
    /\ main' = [main EXCEPT !.cancel = TRUE,
                            !.waiter = IF @ = "pending" THEN "cancelled" ELSE @]
    /\ ready' = IF main.waiter = "pending"
                THEN Append(ready, Handle("main", 0, 0)) ELSE ready
    /\ UNCHANGED <<tasks, order_tasks, found_orders_ids, total, ntodo, wh_tasks,
                   accept_calls, seen_again, checked>>
    /\ last' = NoEvent

\* task.add_done_callback(self.order_tasks.discard)
Discard(t) ==
    /\ Runs("discard", t)
    /\ order_tasks' = order_tasks \ {t}
    /\ Pop(<<>>)
    /\ UNCHANGED <<tasks, found_orders_ids, total, main, wh_tasks, accept_calls,
                   seen_again, checked>>
    /\ last' = NoEvent

\* asyncio.wait's _on_completion for the pending waiter: wakes the scheduler
OnCompletion(t) ==
    /\ Runs("on_completion", t)
    /\ main.pc = "waiting"
    /\ Head(ready).w = main.wait_id
    /\ main.waiter = "pending"
    /\ main' = [main EXCEPT !.waiter = "set"]
    /\ Pop(<<Handle("main", 0, 0)>>)
    /\ UNCHANGED <<tasks, order_tasks, found_orders_ids, total, wh_tasks,
                   accept_calls, seen_again, checked>>
    /\ last' = NoEvent

\* _on_completion of a waiter that is already done, or of an earlier wait
OnCompletionStale(t) ==
    /\ Runs("on_completion", t)
    /\ ~(main.pc = "waiting" /\ Head(ready).w = main.wait_id
         /\ main.waiter = "pending")
    /\ Pop(<<>>)
    /\ UNCHANGED <<tasks, order_tasks, found_orders_ids, total, main, wh_tasks,
                   accept_calls, seen_again, checked>>
    /\ last' = NoEvent

(***************************************************************************)
(* OrderChecker.check_orders                                               *)
(***************************************************************************)
Responses(S) == [kind : {"data"}, sell : SeqsUpTo(S, MaxSell)]

\* a run that leaves check_orders: by return, by an exception or cancelled
Finish(t, result) ==
    /\ tasks' = [tasks EXCEPT ![t] =
                    [@ EXCEPT !.pc = "done", !.cancel = FALSE, !.result = result,
                              !.found = NoOrder, !.sub = "none", !.acquired = FALSE,
                              !.value = IF result = "returned"
                                        THEN ReturnValue(tasks[t].item) ELSE NoItem]]
    /\ Pop(DoneCallbacks(t))

\* the top of the main loop up to its first suspension: `async with
\* self.rate_limiter` suspends only when the limiter has no capacity; once the
\* limiter is acquired, self.session.get starts the request and suspends on
\* the network
BeginCycleBypass(t) ==
    /\ \E capacity \in BOOLEAN :
         tasks' = [tasks EXCEPT ![t].pc = "fetch", ![t].acquired = capacity]
    /\ Pop(<<>>)

BeginCycle(t) ==
    /\ \E capacity \in BOOLEAN :
         tasks' = [tasks EXCEPT ![t].pc = IF capacity THEN "fetch" ELSE "acquire",
                                ![t].acquired = capacity]
    /\ Pop(<<>>)

\* "Wait before checking again": the run suspends in asyncio.sleep
WaitBeforeCheckingAgainSkip(t) ==
    /\ tasks' = [tasks EXCEPT ![t].pc = "fetch", ![t].acquired = TRUE]
    /\ Pop(<<>>)

WaitBeforeCheckingAgain(t) ==
    /\ tasks' = [tasks EXCEPT ![t].pc = "sleep", ![t].acquired = FALSE]
    /\ Pop(<<>>)

\* CancelledError thrown into the run at suspension point pc: only the one
\* around asyncio.sleep is caught (break, return item)
CancelOutcomeContinue(pc) ==
    IF pc = "sleep" THEN [pc |-> "fetch", result |-> "pending"]
    ELSE [pc |-> "done", result |-> "cancelled"]

CancelOutcome(pc) ==
    IF pc = "sleep" THEN [pc |-> "done", result |-> "returned"]
    ELSE [pc |-> "done", result |-> "cancelled"]

CheckOrdersCancelled(t) ==
    /\ Runs("step", t)
    /\ tasks[t].cancel
    /\ LET out == CancelOutcome(tasks[t].pc)
       IN  IF out.pc = "done"
           THEN Finish(t, out.result)
           ELSE /\ tasks' = [tasks EXCEPT ![t].pc = out.pc, ![t].cancel = FALSE]
                /\ Pop(<<>>)
    /\ UNCHANGED <<order_tasks, found_orders_ids, total, main, wh_tasks,
                   accept_calls, seen_again, checked>>
    /\ last' = NoEvent

\* first step of a new task
CheckOrdersStart(t) ==
    /\ Runs("step", t)
    /\ ~tasks[t].cancel
    /\ tasks[t].pc = "new"
    /\ BeginCycle(t)
    /\ UNCHANGED <<order_tasks, found_orders_ids, total, main, wh_tasks,
                   accept_calls, seen_again, checked>>
    /\ last' = NoEvent

\* the limiter's wait ended: capacity is checked again
LimiterWake(t) ==
    /\ Runs("step", t)
    /\ ~tasks[t].cancel
    /\ tasks[t].pc = "acquire"
    /\ BeginCycle(t)
    /\ UNCHANGED <<order_tasks, found_orders_ids, total, main, wh_tasks,
                   accept_calls, seen_again, checked>>
    /\ last' = NoEvent

\* asyncio.sleep(CHECK_INTERVAL) returned
SleepOver(t) ==
    /\ Runs("step", t)
    /\ ~tasks[t].cancel
    /\ tasks[t].pc = "sleep"
    /\ BeginCycle(t)
    /\ UNCHANGED <<order_tasks, found_orders_ids, total, main, wh_tasks,
                   accept_calls, seen_again, checked>>
    /\ last' = NoEvent

\* except asyncio.TimeoutError: continue
FetchTimeout(t) ==
    /\ Runs("step", t)
    /\ ~tasks[t].cancel
    /\ tasks[t].pc = "fetch"
    /\ BeginCycle(t)
    /\ UNCHANGED <<order_tasks, found_orders_ids, total, main, wh_tasks,
                   accept_calls, seen_again, checked>>
    /\ last' = NoEvent

\* if not r.ok: continue
FetchNotOk(t) ==
    /\ Runs("step", t)
    /\ ~tasks[t].cancel
    /\ tasks[t].pc = "fetch"
    /\ BeginCycle(t)
    /\ UNCHANGED <<order_tasks, found_orders_ids, total, main, wh_tasks,
                   accept_calls, seen_again, checked>>
    /\ last' = NoEvent

\* any exception that is not asyncio.TimeoutError (aiohttp.ClientError from
\* the connection, a body that is not JSON, a pydantic ValidationError) is
\* not caught and leaves check_orders
FetchError(t) ==
    /\ Runs("step", t)
    /\ ~tasks[t].cancel
    /\ tasks[t].pc = "fetch"
    /\ Finish(t, "fetch_error")
    /\ UNCHANGED <<order_tasks, found_orders_ids, total, main, wh_tasks,
                   accept_calls, seen_again, checked>>
    /\ last' = NoEvent

\* if not orders_resp.data: continue
FetchNoDataSleep(t) ==
    /\ Runs("step", t)
    /\ ~tasks[t].cancel
    /\ tasks[t].pc = "fetch"
    /\ total' = Count(total)
    /\ WaitBeforeCheckingAgain(t)
    /\ UNCHANGED <<order_tasks, found_orders_ids, main, wh_tasks, accept_calls,
                   seen_again, checked>>
    /\ last' = Event(t, "no_data")

FetchNoData(t) ==
    /\ Runs("step", t)
    /\ ~tasks[t].cancel
    /\ tasks[t].pc = "fetch"
    /\ total' = Count(total)
    /\ BeginCycle(t)
    /\ UNCHANGED <<order_tasks, found_orders_ids, main, wh_tasks, accept_calls,
                   seen_again, checked>>
    /\ last' = Event(t, "no_data")

\* predicate_order is called with an id that is accepted already
SeenAgain(sell, i, found) ==
    \E j \in 1..(IF i = 0 THEN Len(sell) ELSE i) : sell[j].id \in found

\* the response carries data: evaluate the sell orders; on a match add the id,
\* call accept_order (which creates the item task and awaits it), else sleep
FetchData(t) ==
    /\ Runs("step", t)
    /\ ~tasks[t].cancel
    /\ tasks[t].pc = "fetch"
    /\ total' = Count(total)
    /\ \E r \in Responses(FetchedOrders) :
         LET i == FirstMatch(r.sell, tasks[t].item, found_orders_ids)
         IN  /\ seen_again' = (seen_again \/ SeenAgain(r.sell, i, found_orders_ids))
             /\ IF i = 0
                THEN /\ WaitBeforeCheckingAgain(t)
                     /\ last' = NoEvent
                     /\ UNCHANGED <<found_orders_ids, accept_calls>>
                ELSE /\ found_orders_ids' = AddFound(found_orders_ids, r.sell[i].id)
                     /\ accept_calls' = [accept_calls EXCEPT ![r.sell[i].id] = @ + 1]
                     /\ tasks' = [tasks EXCEPT ![t].pc = "imt_new",
                                               ![t].found = r.sell[i].id,
                                               ![t].acquired = FALSE]
                     /\ last' = NoEvent
                     /\ Pop(<<Handle("imt", t, 0)>>)
    /\ UNCHANGED <<order_tasks, main, wh_tasks, checked>>

(***************************************************************************)
(* OrderChecker.request_item_from_order (the item_model_task of run t)     *)
(***************************************************************************)
\* first step, or the limiter's wait ended: acquire, then session.get
ItemTaskBegin(t) ==
    /\ Runs("imt", t)
    /\ ~tasks[t].cancel
    /\ tasks[t].pc \in {"imt_new", "imt_acquire"}
    /\ \E capacity \in BOOLEAN :
         tasks' = [tasks EXCEPT ![t].pc = IF capacity THEN "imt_fetch"
                                          ELSE "imt_acquire",
                                ![t].acquired = capacity]
    /\ last' = NoEvent
    /\ Pop(<<>>)
    /\ UNCHANGED <<order_tasks, found_orders_ids, total, main, wh_tasks,
                   accept_calls, seen_again, checked>>

\* the item request is over: the item, None (no data, no 'en' name) or an
\* exception (raise_for_status, timeout, connection, validation)
ItemTaskDone(t) ==
    /\ Runs("imt", t)
    /\ ~tasks[t].cancel
    /\ tasks[t].pc = "imt_fetch"
    /\ \E res \in {"item", "none", "error"} :
         tasks' = [tasks EXCEPT ![t].pc = "imt_done", ![t].sub = res,
                                ![t].acquired = FALSE]
    /\ Pop(<<Handle("step", t, 0)>>)
    /\ UNCHANGED <<order_tasks, found_orders_ids, total, main, wh_tasks,
                   accept_calls, seen_again, checked>>
    /\ last' = NoEvent

\* the item task is cancelled through the run that awaits it
ItemTaskCancelled(t) ==
    /\ Runs("imt", t)
    /\ tasks[t].cancel
    /\ tasks' = [tasks EXCEPT ![t].pc = "imt_done", ![t].sub = "cancelled",
                              ![t].acquired = FALSE]
    /\ Pop(<<Handle("step", t, 0)>>)
    /\ UNCHANGED <<order_tasks, found_orders_ids, total, main, wh_tasks,
                   accept_calls, seen_again, checked>>
    /\ last' = NoEvent

(***************************************************************************)
(* OrderChecker.accept_order after `await item_model_task`                 *)
(***************************************************************************)
\* the exception of the item task propagates through accept_order
AcceptOrderItemError(t) ==
    /\ Runs("step", t)
    /\ ~tasks[t].cancel
    /\ tasks[t].pc = "imt_done"
    /\ tasks[t].sub = "error"
    /\ Finish(t, "handoff_error")
    /\ UNCHANGED <<order_tasks, found_orders_ids, total, main, wh_tasks,
                   accept_calls, seen_again, checked>>
    /\ last' = NoEvent

\* if item_model is None: return
AcceptOrderBadData(t) ==
    /\ Runs("step", t)
    /\ ~tasks[t].cancel
    /\ tasks[t].pc = "imt_done"
    /\ tasks[t].sub = "none"
    /\ Finish(t, "returned")
    /\ UNCHANGED <<order_tasks, found_orders_ids, total, main, wh_tasks,
                   accept_calls, seen_again, checked>>
    /\ last' = NoEvent

\* create_task(notify_webhook), pyperclip.copy, print, return
AcceptOrderNotifiedAwaited(t) ==
    /\ Runs("step", t)
    /\ ~tasks[t].cancel
    /\ tasks[t].pc = "imt_done"
    /\ tasks[t].sub = "item"
    /\ wh_tasks' = wh_tasks \cup {tasks[t].found}
    /\ tasks' = [tasks EXCEPT ![t].pc = "wh_wait"]
    /\ Pop(<<>>)
    /\ UNCHANGED <<order_tasks, found_orders_ids, total, main, accept_calls,
                   seen_again, checked>>
    /\ last' = NoEvent

AcceptOrderNotified(t) ==
    /\ Runs("step", t)
    /\ ~tasks[t].cancel
    /\ tasks[t].pc = "imt_done"
    /\ tasks[t].sub = "item"
    /\ wh_tasks' = wh_tasks \cup {tasks[t].found}
    /\ Finish(t, "returned")
    /\ UNCHANGED <<order_tasks, found_orders_ids, total, main, accept_calls,
                   seen_again, checked>>
    /\ last' = NoEvent

\* create_task(notify_webhook), then pyperclip.copy raises
AcceptOrderClipboardError(t) ==
    /\ Runs("step", t)
    /\ ~tasks[t].cancel
    /\ tasks[t].pc = "imt_done"
    /\ tasks[t].sub = "item"
    /\ wh_tasks' = wh_tasks \cup {tasks[t].found}
    /\ Finish(t, "handoff_error")
    /\ UNCHANGED <<order_tasks, found_orders_ids, total, main, accept_calls,
                   seen_again, checked>>
    /\ last' = NoEvent

(***************************************************************************)
(* OrderChecker.notify_webhook (detached)                                  *)
(***************************************************************************)
\* the post succeeded, or WEBHOOK_URL is empty
WebhookSent(id) ==
    /\ ntodo = 0
    /\ id \in wh_tasks
    /\ wh_tasks' = wh_tasks \ {id}
    /\ UNCHANGED <<tasks, order_tasks, found_orders_ids, total, ready, ntodo,
                   main, accept_calls, seen_again, checked>>
    /\ last' = NoEvent

\* the post failed: the error is printed, or dies with the detached task
WebhookFailed(id) ==
    /\ ntodo = 0
    /\ id \in wh_tasks
    /\ wh_tasks' = wh_tasks \ {id}
    /\ UNCHANGED <<tasks, order_tasks, found_orders_ids, total, ready, ntodo,
                   main, accept_calls, seen_again, checked>>
    /\ last' = NoEvent

(***************************************************************************)
(* Specification of the scheduler                                          *)
(***************************************************************************)
Loop ==
    \/ BeginIteration
    \/ ScheduleStart
    \/ ScheduleWake
    \/ ScheduleRaise
    \/ ScheduleCancelled
    \/ \E t \in TaskIds :
         \/ Discard(t)
         \/ OnCompletion(t)
         \/ OnCompletionStale(t)
         \/ CheckOrdersCancelled(t)
         \/ CheckOrdersStart(t)
         \/ LimiterWake(t)
         \/ SleepOver(t)
         \/ FetchTimeout(t)
         \/ FetchNotOk(t)
         \/ FetchError(t)
         \/ FetchNoData(t)
         \/ FetchData(t)
         \/ ItemTaskBegin(t)
         \/ ItemTaskDone(t)
         \/ ItemTaskCancelled(t)
         \/ AcceptOrderItemError(t)
         \/ AcceptOrderBadData(t)
         \/ AcceptOrderNotified(t)
         \/ AcceptOrderClipboardError(t)

Environment ==
    \/ Interrupt
    \/ \E t \in TaskIds : TimerFires(t) \/ IoCompletes(t)
    \/ \E id \in OrderIds : WebhookSent(id) \/ WebhookFailed(id)

Next == Loop \/ Environment

Spec == Init /\ [][Next]_vars

(***************************************************************************)
(* Specification of predicate_order alone: every order, item and accepted  *)
(* set within the bounds                                                   *)
(***************************************************************************)
InitPredicate ==
    /\ tasks = <<>>
    /\ order_tasks = {}
    /\ found_orders_ids \in SUBSET OrderIds
    /\ total = 0
    /\ ready = <<>>
    /\ ntodo = 0
    /\ main = [pc |-> "init", exit |-> "none", cancel |-> FALSE,
               fs |-> {}, wait_id |-> 0, waiter |-> "pending"]
    /\ wh_tasks = {}
    /\ accept_calls = [id \in OrderIds |-> 0]
    /\ seen_again = FALSE
    /\ checked = NoCheck
    /\ last = NoEvent

PredicateOrder ==
    /\ \E order \in AllOrders, item \in ITEMS :
         checked' = [NoCheck EXCEPT
                        !.order = order, !.item = item, !.found = found_orders_ids,
                        !.verdict = predicate_order(order, item, found_orders_ids),
                        !.evaluated = TRUE]
    /\ UNCHANGED <<tasks, order_tasks, found_orders_ids, total, ready, ntodo,
                   main, wh_tasks, accept_calls, seen_again>>
    /\ last' = NoEvent

\* check_orders, "Completion logic", for the order evaluated last
PredicateCommit ==
    /\ checked.evaluated
    /\ checked.verdict
    /\ checked.found = found_orders_ids
    /\ found_orders_ids' = AddFound(found_orders_ids, checked.order.id)
    /\ UNCHANGED <<tasks, order_tasks, total, ready, ntodo, main, wh_tasks,
                   accept_calls, seen_again, checked>>
    /\ last' = NoEvent

NextPredicate == PredicateOrder \/ PredicateCommit

SpecPredicate == InitPredicate /\ [][NextPredicate]_vars

(***************************************************************************)
(* Specification of the cycles of one run alone: every response within the *)
(* bounds, sell and buy orders, evaluated by the loop of check_orders      *)
(***************************************************************************)
\* OrdersItemTopData: the sell and the buy orders of a response
OrdersItemTopData(S) == [sell : SeqsUpTo(S, MaxSell), buy : SeqsUpTo(S, 1)]

\* one iteration of `while True` on a response with data: the for loop over
\* data.sell, then "Completion logic" (add the id, break) or the next cycle
CheckOrdersCycle ==
    /\ checked.looping
    /\ \E item \in ITEMS, data \in OrdersItemTopData(ListedOrders) :
         LET i == FirstMatch(data.sell, item, found_orders_ids)
         IN  /\ checked.cycles > 0 => item = checked.item
             /\ checked' = [checked EXCEPT
                    !.order = IF i = 0 THEN NoOrder ELSE data.sell[i],
                    !.item = item, !.found = found_orders_ids,
                    !.verdict = (i # 0),
                    !.sell = data.sell, !.buy = data.buy, !.index = i,
                    !.cycles = 1,
                    !.accepted = IF i = 0 THEN @ ELSE @ + 1,
                    !.looping = (i = 0)]
             /\ found_orders_ids' =
                    IF i = 0 THEN found_orders_ids
                    ELSE AddFound(found_orders_ids, data.sell[i].id)
    /\ UNCHANGED <<tasks, order_tasks, total, ready, ntodo, main, wh_tasks,
                   accept_calls, seen_again, last>>

SpecCycle == InitPredicate /\ [][CheckOrdersCycle]_vars

(***************************************************************************)
(* Fairness: the event loop runs every callback that is ready              *)
(***************************************************************************)
FairSpec == Spec /\ WF_vars(Loop)

\* timers fire and pending I/O completes
Arrives == \E t \in TaskIds : TimerFires(t) \/ IoCompletes(t)

\* run t is granted the limiter, for its listings request or its item request
Acquires(t) == (CheckOrdersStart(t) \/ LimiterWake(t) \/ SleepOver(t)
                \/ FetchTimeout(t) \/ FetchNotOk(t) \/ FetchNoData(t)
                \/ ItemTaskBegin(t)) /\ tasks'[t].acquired

\* the listings request of run t succeeds with an order that suits its item
Accepts(t) == FetchData(t) /\ accept_calls' # accept_calls

\* the event loop runs every ready callback, timers and I/O arrive, a run that
\* keeps asking the limiter is granted it in the end, and a run whose requests
\* can be answered with a suitable order gets such an answer in the end
FairMatchSpec ==
    /\ Spec
    /\ WF_vars(Loop)
    /\ WF_vars(Arrives)
    /\ \A t \in 1..MaxTasks : SF_vars(Acquires(t)) /\ SF_vars(Accepts(t))

(***************************************************************************)
(* Properties                                                              *)
(***************************************************************************)
LiveRuns(item) == {t \in TaskIds : Live(t) /\ tasks[t].item = item}

Replacements(t) == {u \in TaskIds : tasks[u].origin = t}

\* C1: accept_order is invoked at most once for every order id, whatever the
\* fetches return and however the runs interleave.
C1_AtMostOneHandoff == \A id \in OrderIds : accept_calls[id] <= 1

\* an accepted id came back in a later response, to a replacement run included
C1_Witness ==
    /\ seen_again
    /\ \E id \in OrderIds : accept_calls[id] = 1
    /\ \E t \in TaskIds : tasks[t].origin # 0 /\ tasks[t].pc = "sleep"

\* C2 (as claimed): while the scheduler is not shut down, every configured item
\* has at most one live run, and has none only while a finished run of the
\* item waits for the scheduler's next wake-up.
C2_OneLiveRunPerItem ==
    (main.pc # "init" /\ ~main.cancel) =>
        \A item \in ITEMS :
            /\ Cardinality(LiveRuns(item)) <= 1
            /\ LiveRuns(item) = {} =>
                 /\ main.pc = "waiting"
                 /\ \E t \in TaskIds : /\ tasks[t].item = item
                                       /\ IsDone(tasks, t)
                                       /\ tasks[t].reported = 0

\* C3 (as claimed): every run a wake-up of the scheduler found done has
\* exactly one replacement run, for the same item.
C3_OneReplacementPerCompletion ==
    \A t \in TaskIds :
        tasks[t].reported > 0 =>
            /\ Cardinality(Replacements(t)) = 1
            /\ \A u \in Replacements(t) : tasks[u].item = tasks[t].item

\* C4 (as claimed): a run ends by a match or by cancellation only; an error of
\* the listings fetch never ends it.
C4_RunEndsByMatchOrCancel ==
    \A t \in TaskIds :
        IsDone(tasks, t) => tasks[t].result \in {"returned", "cancelled"}

\* C5 (as claimed): without a shutdown signal the scheduler loop never exits
\* and no run is cancelled.
C5_NoFatalError ==
    /\ main.pc = "exited" => main.cancel
    /\ \A t \in TaskIds : tasks[t].was_cancelled => main.cancel

\* C6 (as claimed): a failure of the handoff leaves the acceptance in place and
\* the run that made it still ends successfully.
C6_HandoffFailureIsolated ==
    /\ \A id \in OrderIds : accept_calls[id] > 0 => id \in found_orders_ids
    /\ \A t \in TaskIds : tasks[t].result # "handoff_error"

\* C7: accept_order is invoked for an order only when its id is in
\* found_orders_ids, and no run is suspended holding a found order whose id is
\* not in found_orders_ids.
C7_InsertBeforeHandoff ==
    /\ \A id \in OrderIds : accept_calls[id] > 0 => id \in found_orders_ids
    /\ \A t \in TaskIds :
         tasks[t].found # NoOrder => tasks[t].found \in found_orders_ids

\* a run is suspended inside accept_order
C7_Witness ==
    \E t \in TaskIds : /\ tasks[t].pc = "imt_fetch"
                       /\ tasks[t].found \in found_orders_ids
                       /\ accept_calls[tasks[t].found] = 1

\* C8 (as claimed): predicate_order accepts an order iff its id is not accepted
\* yet, its price is at most the threshold, its quantity at least the minimum
\* and its seller status is "online".
C8_PredicateOnline ==
    checked.evaluated =>
        (checked.verdict <=>
            /\ checked.order.id \notin checked.found
            /\ checked.order.platinum <= checked.item.price_threshold
            /\ checked.order.quantity >= checked.item.quantity_min
            /\ checked.order.status = "online")

\* C8 (amended): predicate_order accepts an order iff its id is not accepted
\* yet, its price is at most the threshold, its quantity at least the minimum
\* and its seller status is "ingame"; an accepted id is rejected whatever the
\* rest.
C8_PredicateIngame ==
    checked.evaluated =>
        /\ checked.verdict <=>
             /\ checked.order.id \notin checked.found
             /\ checked.order.platinum <= checked.item.price_threshold
             /\ checked.order.quantity >= checked.item.quantity_min
             /\ checked.order.status = "ingame"
        /\ checked.order.id \in checked.found => ~checked.verdict

\* price = threshold, quantity = minimum, status ingame, id new: accepted
C8_Witness ==
    /\ checked.evaluated
    /\ checked.verdict
    /\ checked.order.platinum = checked.item.price_threshold
    /\ checked.order.quantity = checked.item.quantity_min
    /\ checked.order.status = "ingame"

\* C9: once the scheduler's wait is cancelled no task is created any more, and
\* when the scheduler has left through the cancellation every run that is
\* still live has been cancelled.
C9_NoRunAfterShutdown ==
    [][/\ main.cancel => Len(tasks') = Len(tasks)
       /\ main'.exit = "cancelled" =>
            \A t \in 1..Len(tasks') :
                tasks'[t].pc # "done" => tasks'[t].was_cancelled]_vars

\* a run swallowed its cancellation in the sleep and returned; nothing replaced it
C9_Witness ==
    /\ main.exit = "cancelled"
    /\ \E t \in TaskIds : /\ tasks[t].was_cancelled
                          /\ tasks[t].result = "returned"
                          /\ Replacements(t) = {}

AllTerminated ==
    /\ main.pc = "exited"
    /\ \A t \in TaskIds : IsDone(tasks, t)

\* C10: a cancelled run never enters a new cycle (no limiter acquire, no
\* fetch, no sleep), a run cancelled in its sleep is done at its next step, and
\* under fair scheduling every run terminates and the scheduler has exited.
C10_CancelledRunsTerminate ==
    /\ [][\A t \in TaskIds :
            tasks[t].was_cancelled =>
                /\ tasks'[t].pc \in RunWaits => tasks'[t].pc = tasks[t].pc
                /\ tasks[t].pc = "sleep" => tasks'[t].pc \in {"sleep", "done"}]_vars
    /\ main.cancel ~> AllTerminated

\* all runs were cancelled and are done, one of them in its sleep
C10_Witness ==
    /\ AllTerminated
    /\ main.exit = "cancelled"
    /\ \E t \in TaskIds : tasks[t].was_cancelled /\ tasks[t].result = "returned"
    /\ \E t \in TaskIds : tasks[t].was_cancelled /\ tasks[t].result = "cancelled"

\* C11: a cycle that evaluates listings data and accepts none puts the run in
\* one asyncio.sleep; a sleep begins in no other way, and a sleeping run goes on
\* sleeping until it either passes to the limiter acquire of its next cycle or
\* is cancelled and ends: one sleep, never none and never two, between an
\* evaluated cycle and the next cycle.
C11_OneSleepAfterNoMatch ==
    [][\A t \in TaskIds :
         /\ (FetchData(t) /\ accept_calls' = accept_calls) =>
                tasks'[t].pc = "sleep"
         /\ (tasks[t].pc # "sleep" /\ tasks'[t].pc = "sleep") =>
                (FetchData(t) /\ accept_calls' = accept_calls)
         /\ tasks[t].pc = "sleep" =>
                \/ tasks'[t].pc = "sleep"
                \/ SleepOver(t) /\ tasks'[t].pc \in {"acquire", "fetch"}
                \/ CheckOrdersCancelled(t) /\ tasks'[t].pc = "done"]_vars

\* the sleep of a run is over: its timer fired and its next step is the acquire
C11_Witness ==
    \E t \in TaskIds : /\ tasks[t].pc = "sleep"
                       /\ ~tasks[t].cancel
                       /\ HasHandle(ready, "step", t)

\* C12: a response without listings data, and a request timeout, end the cycle
\* without a sleep: the run is back at the limiter acquire (waiting for it, or
\* past it with the next request started) in the same step, nothing is
\* accepted and no handoff made.
C12_NoSleepWithoutData ==
    /\ [](last.ev = "no_data" => tasks[last.t].pc \in {"acquire", "fetch"})
    /\ [][\A t \in TaskIds :
            (FetchNoData(t) \/ FetchTimeout(t)) =>
                /\ tasks'[t].pc \in {"acquire", "fetch"}
                /\ found_orders_ids' = found_orders_ids
                /\ accept_calls' = accept_calls
                /\ seen_again' = seen_again
                /\ wh_tasks' = wh_tasks]_vars

\* a run got a response without data and has started its next request at once
C12_Witness ==
    /\ last.ev = "no_data"
    /\ tasks[last.t].pc = "fetch"
    /\ total > 0
    /\ \A t \in TaskIds : tasks[t].pc # "sleep"

\* C13: a request of a run (listings or item details) is in flight only when
\* the run acquired the limiter for it: every path to a request, the first
\* attempt and every retry, passes the acquire.
C13_NoRequestWithoutAcquire ==
    \A t \in TaskIds :
        tasks[t].pc \in {"fetch", "imt_fetch"} => tasks[t].acquired

\* a retry after a response without data, and an item request, both acquired
C13_Witness ==
    /\ last.ev = "no_data"
    /\ tasks[last.t].pc = "fetch" /\ tasks[last.t].acquired
    /\ \E t \in TaskIds : tasks[t].pc = "imt_fetch" /\ tasks[t].acquired

\* the run is inside a polling cycle: from the limiter acquire to the end of
\* the sleep or of the handoff
InCycle(t) ==
    tasks[t].pc \in RunWaits \cup ImtWaits \cup {"imt_new", "imt_done"}

\* C15 (as claimed): no listings request of an item is in flight while another
\* run of the same item is inside a cycle.
C15_CyclesSequential ==
    \A t, u \in TaskIds :
        (t # u /\ tasks[t].item = tasks[u].item) =>
            ~(tasks[t].pc = "fetch" /\ InCycle(u))

\* the run is inside accept_order, before `await item_model_task` returned
InHandoff(t) == tasks[t].pc \in ImtWaits \cup {"imt_new", "imt_done"}

C17_FirstMatchAccepted ==
    checked.cycles > 0 =>
        LET sell == checked.sell
            i == checked.index
            Suits(j) == predicate_order(sell[j], checked.item, checked.found)
        IN  /\ i \in 0..Len(sell)
            /\ \A j \in 1..Len(sell) : (i = 0 \/ j < i) => ~Suits(j)
            /\ i # 0 => /\ Suits(i)
                        /\ checked.order = sell[i]
                        /\ found_orders_ids = checked.found \cup {sell[i].id}
                        /\ ~checked.looping
            /\ i = 0 => found_orders_ids = checked.found
            /\ checked.accepted <= 1

\* the second sell order is accepted: the first is too dear for the item, and
\* a buy order that would suit is not looked at
C17_Witness ==
    /\ checked.cycles > 0
    /\ Len(checked.sell) = 2
    /\ checked.index = 2
    /\ checked.sell[1].id \notin checked.found
    /\ checked.sell[1].platinum > checked.item.price_threshold
    /\ \E k \in 1..Len(checked.buy) :
         /\ predicate_order(checked.buy[k], checked.item, checked.found)
         /\ checked.buy[k].id # checked.sell[2].id

\* C18: no step removes an id from found_orders_ids.
C18_FoundOnlyGrows == [][found_orders_ids \subseteq found_orders_ids']_vars

\* both ids were accepted, a handoff failed, the scheduler left and cancelled
\* the runs: the ids are still there
C18_Witness ==
    /\ found_orders_ids = OrderIds
    /\ main.pc = "exited"
    /\ \E t \in TaskIds : tasks[t].result = "handoff_error"
    /\ \E t \in TaskIds : tasks[t].result = "cancelled"

\* C19: a run that returned holds, as its value, the item it was created
\* with, and a replacement run has the item of the run it replaces: name,
\* price_threshold, quantity_min and rank.
C19_ReturnsItsItem ==
    /\ \A t \in TaskIds :
         tasks[t].result = "returned" => tasks[t].value = tasks[t].item
    /\ \A u \in TaskIds :
         tasks[u].origin # 0 =>
            LET old == tasks[tasks[u].origin].item
            IN  /\ tasks[u].item.name = old.name
                /\ tasks[u].item.price_threshold = old.price_threshold
                /\ tasks[u].item.quantity_min = old.quantity_min
                /\ tasks[u].item.rank = old.rank

\* the second item's run returned after a handoff and was replaced, and a run
\* returned from its cancelled sleep
C19_Witness ==
    /\ \E u \in TaskIds : /\ tasks[u].origin # 0
                           /\ tasks[u].item = ItemB
                           /\ ~tasks[tasks[u].origin].was_cancelled
    /\ \E t \in TaskIds : /\ tasks[t].was_cancelled
                           /\ tasks[t].result = "returned"
                           /\ tasks[t].value = tasks[t].item

\* C20 (as claimed): the scheduler never waits on a task an earlier wake-up
\* reported done, no task is reported done twice, and order_tasks never holds
\* more tasks than there are configured items.
C20_DiscardBeforeNextWait ==
    /\ main.pc = "waiting" => \A t \in main.fs : tasks[t].reported = 0
    /\ \A t \in TaskIds : tasks[t].reported <= 1
    /\ Cardinality(order_tasks) <= Cardinality(ITEMS)

\* run t ended by returning and the scheduler created a replacement for it
ReplacedRun(t) ==
    /\ t \in TaskIds
    /\ IsDone(tasks, t)
    /\ tasks[t].result = "returned"
    /\ Replacements(t) # {}

\* C21 (as claimed): with fair scheduling, a limiter that starves no run, no
\* shutdown signal, no cancellation of the run and listings requests that do
\* not fail, every run, as long as an order that suits can still be listed, in
\* the end accepts one, returns and is replaced.
C21_MatchLeadsToReplacement ==
    \A t \in 1..MaxTasks :
        (t \in TaskIds /\ Live(t)) ~>
            \/ ReplacedRun(t)
            \/ main.cancel
            \/ (t \in TaskIds /\ tasks[t].was_cancelled)
            \/ found_orders_ids = OrderIds
            \/ \E u \in TaskIds : tasks[u].result = "fetch_error"

\* a cycle of run t that ends without an accepted order
NoAcceptCycle(t) ==
    \/ FetchTimeout(t)
    \/ FetchNotOk(t)
    \/ FetchNoData(t)
    \/ (FetchData(t) /\ tasks'[t].pc = "sleep")

\* C22: a cycle that accepts nothing (request timeout, response not OK, no
\* listings data, listings of which none suits) leaves found_orders_ids as it
\* was and calls accept_order for no order; found_orders_ids changes only in
\* a cycle that accepts an order, by the one id of that order, which was not
\* in the set and is handed to accept_order once.
C22_FoundChangesOnlyByAccept ==
    [][/\ \A t \in TaskIds :
            NoAcceptCycle(t) =>
                /\ found_orders_ids' = found_orders_ids
                /\ accept_calls' = accept_calls
                /\ tasks'[t].found = NoOrder
                /\ tasks'[t].pc \in RunWaits
       /\ found_orders_ids' # found_orders_ids =>
            \E t \in TaskIds, id \in OrderIds \ found_orders_ids :
                /\ FetchData(t)
                /\ found_orders_ids' = found_orders_ids \cup {id}
                /\ tasks'[t].found = id
                /\ tasks'[t].pc = "imt_new"
                /\ accept_calls' = [accept_calls EXCEPT ![id] = @ + 1]]_vars

\* a replacement run got listings of which none suits, an accepted id among
\* them, and sleeps: the set still holds one id, handed off once
C22_Witness ==
    /\ seen_again
    /\ Cardinality(found_orders_ids) = 1
    /\ \A id \in OrderIds : accept_calls[id] = IF id \in found_orders_ids THEN 1 ELSE 0
    /\ \E t \in TaskIds : /\ tasks[t].origin # 0
                          /\ tasks[t].pc = "sleep"
                          /\ tasks[t].found = NoOrder

====
